---- MODULE Spec2Model ----
(***************************************************************************)
(* Model of the %%background cell magic of jupyter_utils/background.py.     *)
(*                                                                         *)
(* A Python str is modelled as a sequence of one-character strings, a      *)
(* list of str as a sequence of such sequences.  Indexing or iterating a   *)
(* Python str yields one-character strs, so a cell whose "source" is a     *)
(* single str is seen by the code as the sequence of its characters, each  *)
(* a str of length one (PyView).                                           *)
(***************************************************************************)
EXTENDS Integers, Sequences, FiniteSets, TLC

\* ------------------------------------------------------------------ bounds
MaxCells == 3

\* --------------------------------------------------------- string literals
NL == "\n"
PCT == "%"
CellMagicPrefix == <<"%", "%">>
LineMagicPrefix == <<"%">>
BackgroundMagic == <<"%", "%", "b", "a", "c", "k", "g", "r", "o", "u", "n", "d">>
Interpreter == <<"p", "y", "t", "h", "o", "n">>

s_import == <<"i", "m", "p", "o", "r", "t", " ", "o", "s">>
s_empty == <<>>
s_x == <<"x", " ", "=", " ", "1">>
s_y_nl == <<"y", NL>>
s_bash == <<"%", "%", "s", "h">>
s_pdb_nl == <<"%", "p", "d", "b", NL>>
s_pdb == <<"%", "p", "d", "b">>
s_bg_args_nl == BackgroundMagic \o <<" ", "-", "v", NL>>
s_bg_str == BackgroundMagic \o <<NL>> \o s_x
s_mod == <<"7", "%", "2">>

\* ------------------------------------------------------ python primitives
\* str.startswith(prefix)
StartsWith(s, prefix) ==
    /\ Len(s) >= Len(prefix)
    /\ SubSeq(s, 1, Len(prefix)) = prefix

\* "".join(parts)
RECURSIVE JoinEmpty(_)
JoinNewline_mut(parts) ==
    IF parts = <<>> THEN <<>>
    ELSE IF Len(parts) = 1 THEN Head(parts)
    ELSE Head(parts) \o <<NL>> \o JoinEmpty(Tail(parts))
JoinEmpty(parts) ==
    IF parts = <<>> THEN <<>> ELSE Head(parts) \o JoinEmpty(Tail(parts))

\* line.startswith("%"), the test of the comprehension of line 42
IsCellMagicOnly_mut(l) == StartsWith(l, CellMagicPrefix)
IsLineMagic(l) == StartsWith(l, LineMagicPrefix)

\* [line for line in source if not line.startswith("%")]
FilterLineMagics(source) == SelectSeq(source, LAMBDA l : ~IsLineMagic(l))

\* cell["source"][0].startswith("%%")
HasCellMagic(source) == StartsWith(source[1], CellMagicPrefix)

\* cell["source"][0].startswith("%%background")
IsExactlyBackground_mut(source) == source[1] = BackgroundMagic
IsBackground(source) == StartsWith(source[1], BackgroundMagic)

\* cell["cell_type"] != "code" or not cell["source"]
SkipsEmptyOnly_mut(c) == c.source = <<>>
IsSkipped(c) == c.cell_type # "code" \/ c.source = <<>>

\* os.path.dirname of a path held as [dir, base]
dirname(path) == path.dir

\* what json.load hands to the code for one cell: a list of str stays a
\* list of str, a single str is a sequence of one-character strs
PyView(c) ==
    [cell_type |-> c.cell_type,
     source |-> IF c.form = "str"
                THEN [k \in 1..Len(c.text) |-> <<c.text[k]>>]
                ELSE c.source]

\* ------------------------------------------------------------------ inputs
\* a cell of the document: "source" is a list of lines (form "list", field
\* source) or one string (form "str", field text)
ListCell(t, src) ==
    [cell_type |-> t, form |-> "list", source |-> src, text |-> <<>>]
StrCell(t, txt) ==
    [cell_type |-> t, form |-> "str", source |-> <<>>, text |-> txt]

\* cells in the list-of-lines form in which Jupyter saves a notebook
ListCells ==
    { ListCell("code", <<s_import, s_empty>>),
      ListCell("code", <<BackgroundMagic>>),
      ListCell("code", <<s_x>>),
      ListCell("markdown", <<s_x>>),
      ListCell("code", <<>>),
      ListCell("code", <<s_bash, s_x>>),
      ListCell("code", <<s_y_nl, s_pdb_nl, s_x>>),
      ListCell("code", <<s_pdb, s_x>>),
      ListCell("code", <<s_bg_args_nl, s_pdb_nl, s_x>>) }

\* cells whose source is one string
StrCells ==
    { StrCell("code", s_x),
      StrCell("code", s_bg_str),
      StrCell("code", s_mod),
      StrCell("code", <<>>) }

MixedCells == ListCells \cup StrCells

NbFname == [dir |-> "/home/user/project", base |-> "nb.ipynb"]
TmpBase == "tmpabc123"

Documents(pool) == UNION { [1..n -> pool] : n \in 0..MaxCells }

\* the cells of the on-disk document that can be the invoking cell
\* (0: the invoking cell is not in the saved document)
InvokingChoices(doc) ==
    {0} \cup { k \in 1..Len(doc) :
                 /\ doc[k].form = "list"
                 /\ ~IsSkipped(doc[k])
                 /\ StartsWith(doc[k].source[1], BackgroundMagic) }

\* the arguments IPython passes to a cell magic: the rest of the magic's
\* line and the body of the cell
MagicLine(doc, k) ==
    IF k = 0 THEN <<>>
    ELSE SubSeq(doc[k].source[1], Len(BackgroundMagic) + 1, Len(doc[k].source[1]))
MagicCell(doc, k) ==
    IF k = 0 THEN <<>> ELSE JoinEmpty(Tail(doc[k].source))

\* ------------------------------------------------------------------- state
VARIABLES
    docState,    \* "ok" | "missing" | "invalid" | "unresolved"
    docCells,    \* the cells of the document on disk
    invoking,    \* index of the invoking cell in the document, or 0
    line, cell,  \* parameters of background(); cell is rebound by the loop
    pc,          \* position in background()
    exc,         \* the exception in flight, or "none"
    nb,          \* nb["cells"] after json.load
    i,           \* index of the loop's current cell (1-based), 0 before
    code, terminate,
    tmpCreated,  \* number of temporary files created
    tmpExists,   \* the temporary file is present in its directory
    tmpDir,      \* the directory the temporary file was created in
    tmpBuf,      \* text written to tmp and still in its buffer
    tmpDisk,     \* text of the temporary file on disk
    spawned,     \* number of processes spawned
    argv,        \* argument vector of the spawned process
    child,       \* "none" | "launched" | "opened" | "missing"
    log          \* the runner's side effects, in order

vars == <<docState, docCells, invoking, line, cell, pc, exc, nb, i, code,
          terminate, tmpCreated, tmpExists, tmpDir, tmpBuf, tmpDisk,
          spawned, argv, child, log>>

docVars == <<docState, docCells, invoking, line>>
loopVars == <<nb, i, code, terminate, cell>>
tmpVars == <<tmpCreated, tmpExists, tmpDir, tmpBuf, tmpDisk>>
procVars == <<spawned, argv, child>>

InitWith(pool) ==
    /\ \/ /\ docState = "ok"
          /\ docCells \in Documents(pool)
       \/ /\ docState \in {"missing", "invalid", "unresolved"}
          /\ docCells = <<>>
    /\ invoking \in InvokingChoices(docCells)
    /\ line = MagicLine(docCells, invoking)
    /\ cell = MagicCell(docCells, invoking)
    /\ pc = "start"
    /\ exc = "none"
    /\ nb = <<>>
    /\ i = 0
    /\ code = <<>>
    /\ terminate = FALSE
    /\ tmpCreated = 0
    /\ tmpExists = FALSE
    /\ tmpDir = ""
    /\ tmpBuf = <<>>
    /\ tmpDisk = <<>>
    /\ spawned = 0
    /\ argv = <<>>
    /\ child = "none"
    /\ log = <<>>

Init == InitWith(ListCells)
InitStr == InitWith(MixedCells)

\* ----------------------------------------------------------------- actions
\* nb_fname = get_notebook_name()
GetNotebookName ==
    /\ pc = "start"
    /\ IF docState = "unresolved"
       THEN pc' = "raised" /\ exc' = "IdentityResolutionError"
       ELSE pc' = "open" /\ exc' = exc
    /\ UNCHANGED <<docVars, loopVars, tmpVars, procVars, log>>

\* with open(nb_fname) as f
OpenNotebookInsideTmp_mut ==
    /\ pc = "open"
    /\ IF docState = "missing"
       THEN pc' = "raised" /\ exc' = "FileNotFoundError"
       ELSE pc' = "load" /\ exc' = exc
    /\ tmpCreated' = tmpCreated + 1
    /\ tmpExists' = (docState # "missing")
    /\ tmpDir' = dirname(NbFname)
    /\ log' = Append(log, "create")
    /\ UNCHANGED <<docVars, loopVars, tmpBuf, tmpDisk, procVars>>
OpenNotebook ==
    /\ pc = "open"
    /\ IF docState = "missing"
       THEN pc' = "raised" /\ exc' = "FileNotFoundError"
       ELSE pc' = "load" /\ exc' = exc
    /\ UNCHANGED <<docVars, loopVars, tmpVars, procVars, log>>

\* nb = json.load(f); code = ""; terminate = False
JsonLoad ==
    /\ pc = "load"
    /\ IF docState = "invalid"
       THEN /\ pc' = "raised"
            /\ exc' = "JSONDecodeError"
            /\ UNCHANGED <<nb, code, terminate>>
       ELSE /\ pc' = "for"
            /\ exc' = exc
            /\ nb' = [k \in 1..Len(docCells) |-> PyView(docCells[k])]
            /\ code' = <<>>
            /\ terminate' = FALSE
    /\ UNCHANGED <<docVars, i, cell, tmpVars, procVars, log>>

\* for cell in nb["cells"]: the next cell, or the end of the loop
ForCell ==
    /\ pc = "for"
    /\ IF i < Len(nb)
       THEN i' = i + 1 /\ cell' = nb[i + 1] /\ pc' = "body"
       ELSE i' = i /\ cell' = cell /\ pc' = "mktemp"
    /\ UNCHANGED <<docVars, exc, nb, code, terminate, tmpVars, procVars, log>>

\* skip markdown and empty code cells: continue
SkipCell ==
    /\ pc = "body"
    /\ IsSkipped(cell)
    /\ pc' = "for"
    /\ UNCHANGED <<docVars, exc, loopVars, tmpVars, procVars, log>>

\* a %%background cell: drop the magic's line, end after this cell
StripBackground ==
    /\ pc = "body"
    /\ ~IsSkipped(cell)
    /\ HasCellMagic(cell.source)
    /\ IsBackground(cell.source)
    /\ cell' = [cell EXCEPT !.source = Tail(@)]
    /\ nb' = [nb EXCEPT ![i].source = Tail(@)]
    /\ terminate' = TRUE
    /\ pc' = "append"
    /\ UNCHANGED <<docVars, exc, i, code, tmpVars, procVars, log>>

\* a cell with any other cell magic: continue
SkipOtherCellMagic ==
    /\ pc = "body"
    /\ ~IsSkipped(cell)
    /\ HasCellMagic(cell.source)
    /\ ~IsBackground(cell.source)
    /\ pc' = "for"
    /\ UNCHANGED <<docVars, exc, loopVars, tmpVars, procVars, log>>

\* a cell without a cell magic falls through to the append
PlainCell ==
    /\ pc = "body"
    /\ ~IsSkipped(cell)
    /\ ~HasCellMagic(cell.source)
    /\ pc' = "append"
    /\ UNCHANGED <<docVars, exc, loopVars, tmpVars, procVars, log>>

\* code += "".join([...]) + "\n"; if terminate: break
AppendNoBreak_mut ==
    /\ pc = "append"
    /\ code' = code \o JoinEmpty(FilterLineMagics(cell.source)) \o <<NL>>
    /\ pc' = "for"
    /\ UNCHANGED <<docVars, exc, nb, i, cell, terminate, tmpVars, procVars, log>>
AppendCode ==
    /\ pc = "append"
    /\ code' = code \o JoinEmpty(FilterLineMagics(cell.source)) \o <<NL>>
    /\ pc' = IF terminate THEN "mktemp" ELSE "for"
    /\ UNCHANGED <<docVars, exc, nb, i, cell, terminate, tmpVars, procVars, log>>

\* with NamedTemporaryFile("w", dir=dirname(nb_fname)) as tmp
CreateTmp ==
    /\ pc = "mktemp"
    /\ \/ /\ tmpCreated' = tmpCreated + 1
          /\ tmpExists' = TRUE
          /\ tmpDir' = dirname(NbFname)
          /\ log' = Append(log, "create")
          /\ pc' = "write"
          /\ exc' = exc
       \/ /\ pc' = "raised"
          /\ exc' = "OSError"
          /\ UNCHANGED <<tmpCreated, tmpExists, tmpDir, log>>
    /\ UNCHANGED <<docVars, loopVars, tmpBuf, tmpDisk, procVars>>

\* tmp.write(code)
TmpWrite ==
    /\ pc = "write"
    /\ tmpBuf' = tmpBuf \o code
    /\ log' = Append(log, "write")
    /\ pc' = "seek"
    /\ UNCHANGED <<docVars, exc, loopVars, tmpCreated, tmpExists, tmpDir,
                   tmpDisk, procVars>>

\* tmp.seek(0): a text file flushes its write buffer before it seeks
TmpSeekNoFlush_mut ==
    /\ pc = "seek"
    /\ log' = Append(log, "flush")
    /\ pc' = "popen"
    /\ UNCHANGED <<docVars, exc, loopVars, tmpVars, procVars>>
TmpSeek ==
    /\ pc = "seek"
    /\ tmpDisk' = tmpDisk \o tmpBuf
    /\ tmpBuf' = <<>>
    /\ log' = Append(log, "flush")
    /\ pc' = "popen"
    /\ UNCHANGED <<docVars, exc, loopVars, tmpCreated, tmpExists, tmpDir,
                   procVars>>

\* Popen(["python", tmp.name]): returns at once, or raises
Popen ==
    /\ pc = "popen"
    /\ \/ /\ spawned' = spawned + 1
          /\ argv' = <<Interpreter, [dir |-> tmpDir, base |-> TmpBase]>>
          /\ child' = "launched"
          /\ log' = Append(log, "spawn")
          /\ pc' = "sleep"
          /\ exc' = exc
       \/ /\ pc' = "exit"
          /\ exc' = "LaunchError"
          /\ UNCHANGED <<procVars, log>>
    /\ UNCHANGED <<docVars, loopVars, tmpVars>>

\* sleep(0.5)
Sleep ==
    /\ pc = "sleep"
    /\ log' = Append(log, "sleep")
    /\ pc' = "exit"
    /\ UNCHANGED <<docVars, exc, loopVars, tmpVars, procVars>>

\* tmp.__exit__: the file is closed, which flushes and deletes it
TmpExitAwaitChild_mut ==
    /\ pc = "exit"
    /\ child # "launched"
    /\ tmpDisk' = tmpDisk \o tmpBuf
    /\ tmpBuf' = <<>>
    /\ tmpExists' = FALSE
    /\ log' = Append(log, "delete")
    /\ pc' = IF exc = "none" THEN "returned" ELSE "raised"
    /\ UNCHANGED <<docVars, exc, loopVars, tmpCreated, tmpDir, procVars>>
TmpExitLeak_mut ==
    /\ pc = "exit"
    /\ tmpDisk' = tmpDisk \o tmpBuf
    /\ tmpBuf' = <<>>
    /\ tmpExists' = (exc # "none")
    /\ log' = IF exc = "none" THEN Append(log, "delete") ELSE log
    /\ pc' = IF exc = "none" THEN "returned" ELSE "raised"
    /\ UNCHANGED <<docVars, exc, loopVars, tmpCreated, tmpDir, procVars>>
TmpExit ==
    /\ pc = "exit"
    /\ tmpDisk' = tmpDisk \o tmpBuf
    /\ tmpBuf' = <<>>
    /\ tmpExists' = FALSE
    /\ log' = Append(log, "delete")
    /\ pc' = IF exc = "none" THEN "returned" ELSE "raised"
    /\ UNCHANGED <<docVars, exc, loopVars, tmpCreated, tmpDir, procVars>>

\* the spawned interpreter opens the file named by its argument, at any
\* moment after the launch
ChildOpen ==
    /\ child = "launched"
    /\ child' = IF tmpExists THEN "opened" ELSE "missing"
    /\ UNCHANGED <<docVars, pc, exc, loopVars, tmpVars, spawned, argv, log>>

Next ==
    \/ GetNotebookName
    \/ OpenNotebook
    \/ JsonLoad
    \/ ForCell
    \/ SkipCell
    \/ StripBackground
    \/ SkipOtherCellMagic
    \/ PlainCell
    \/ AppendCode
    \/ CreateTmp
    \/ TmpWrite
    \/ TmpSeek
    \/ Popen
    \/ Sleep
    \/ TmpExit
    \/ ChildOpen

Spec == Init /\ [][Next]_vars
SpecStr == InitStr /\ [][Next]_vars

\* ------------------------------------------------- what the claims expect
\* The expected reconstruction, written from the claims' wording and
\* independently of the operators the actions use.
BeginsWith(s, prefix) ==
    /\ Len(prefix) <= Len(s)
    /\ \A k \in 1..Len(prefix) : s[k] = prefix[k]

RECURSIVE Concat(_)
Concat(parts) ==
    IF Len(parts) = 0 THEN <<>>
    ELSE Concat(SubSeq(parts, 1, Len(parts) - 1)) \o parts[Len(parts)]

RECURSIVE ConcatWithNewlines(_)
ConcatWithNewlines(parts) ==
    IF Len(parts) = 0 THEN <<>>
    ELSE IF Len(parts) = 1 THEN parts[1]
    ELSE ConcatWithNewlines(SubSeq(parts, 1, Len(parts) - 1))
         \o <<NL>> \o parts[Len(parts)]

NonEmptyCode(c) == c.cell_type = "code" /\ Len(c.source) > 0
Directive(c) == NonEmptyCode(c) /\ BeginsWith(c.source[1], BackgroundMagic)
OtherDirective(c) ==
    /\ NonEmptyCode(c)
    /\ BeginsWith(c.source[1], CellMagicPrefix)
    /\ ~BeginsWith(c.source[1], BackgroundMagic)
Contributes(c) == NonEmptyCode(c) /\ ~OtherDirective(c)

Body(c) == IF Directive(c) THEN SubSeq(c.source, 2, Len(c.source)) ELSE c.source
KeptLines(c) == SelectSeq(Body(c), LAMBDA l : ~BeginsWith(l, <<PCT>>))

Contribution(c) ==
    IF Contributes(c) THEN Concat(KeptLines(c)) \o <<NL>> ELSE <<>>
ContributionWithNewlines(c) ==
    IF Contributes(c) THEN ConcatWithNewlines(KeptLines(c)) \o <<NL>> ELSE <<>>

RECURSIVE Prefix(_, _)
Prefix(doc, k) ==
    IF k = 0 THEN <<>> ELSE Prefix(doc, k - 1) \o Contribution(doc[k])

RECURSIVE PrefixWithNewlines(_, _)
PrefixWithNewlines(doc, k) ==
    IF k = 0 THEN <<>>
    ELSE PrefixWithNewlines(doc, k - 1) \o ContributionWithNewlines(doc[k])

\* the first directive cell of the document, or its last cell
StopIndex(doc) ==
    IF \E k \in 1..Len(doc) : Directive(doc[k])
    THEN CHOOSE k \in 1..Len(doc) :
            Directive(doc[k]) /\ \A j \in 1..(k - 1) : ~Directive(doc[j])
    ELSE Len(doc)

\* the loop of background() is over
LoopDone ==
    \/ pc \in {"mktemp", "write", "seek", "popen", "sleep", "exit", "returned"}
    \/ pc = "raised" /\ exc \in {"OSError", "LaunchError"}

Finished == pc \in {"returned", "raised"}

\* text.splitlines(keepends=True)
RECURSIVE SplitLines(_, _)
SplitLines(s, cur) ==
    IF s = <<>> THEN (IF cur = <<>> THEN <<>> ELSE <<cur>>)
    ELSE IF Head(s) = NL
         THEN <<cur \o <<NL>>>> \o SplitLines(Tail(s), <<>>)
         ELSE SplitLines(Tail(s), cur \o <<Head(s)>>)

AsListCell(c) ==
    IF c.form = "str"
    THEN ListCell(c.cell_type, SplitLines(c.text, <<>>))
    ELSE c
AsListDocument(doc) == [k \in 1..Len(doc) |-> AsListCell(doc[k])]

Fixture ==
    <<ListCell("code", <<s_import, s_empty>>),
      ListCell("code", <<BackgroundMagic>>),
      ListCell("code", <<s_x>>)>>

\* ------------------------------------------------------------------ claims

\* C1: when cell k is a non-empty code cell whose first line is the
\* %%background directive and no earlier cell is, the reconstructed source
\* is the contributions of cells 1..k in order, cell k's directive line
\* removed, and nothing of any cell after k.
C1_StopsAtTerminalCell ==
    \A k \in 1..Len(docCells) :
        ( /\ LoopDone
          /\ Directive(docCells[k])
          /\ \A j \in 1..(k - 1) : ~Directive(docCells[j]) )
        => /\ code = Prefix(docCells, k)
           /\ i = k

C1_Witness ==
    /\ LoopDone
    /\ Len(docCells) = 3
    /\ Contributes(docCells[1]) /\ ~Directive(docCells[1])
    /\ Directive(docCells[2]) /\ Len(docCells[2].source) > 1
    /\ Contributes(docCells[3])

\* C2: a cell that is not a code cell, is empty, or starts with a cell magic
\* other than %%background adds nothing and does not end the iteration: the
\* loop goes on to the next cell; a document of markdown and empty cells
\* only gives the empty source.
C2_SkippedCellsContributeNothing ==
    /\ [][ (pc = "body" /\ ~Contributes(docCells[i]))
           => (code' = code /\ terminate' = terminate /\ pc' = "for") ]_vars
    /\ [] ( (LoopDone /\ ~terminate) => i = Len(docCells) )
    /\ [] ( (LoopDone /\ \A k \in 1..Len(docCells) : ~NonEmptyCode(docCells[k]))
            => code = <<>> )

C2_Witness ==
    /\ LoopDone
    /\ Len(docCells) = 3
    /\ OtherDirective(docCells[1])
    /\ docCells[2].cell_type = "markdown"
    /\ Contributes(docCells[3])
    /\ code = Contribution(docCells[3])

\* C3: no line of the reconstructed source begins with the control prefix
\* "%": a "%" is never the first character of the source nor the character
\* after a newline, so no line magic and no directive line got through.
NoMagicLine(s) ==
    \A k \in 1..Len(s) : s[k] = PCT => (k > 1 /\ s[k - 1] # NL)

C3_NoControlLine == NoMagicLine(code) /\ NoMagicLine(tmpDisk)

C3_Witness ==
    /\ pc = "returned"
    /\ code # <<>>
    /\ \E k \in 1..Len(docCells) :
          /\ i = k
          /\ Directive(docCells[k])
          /\ \E n \in 3..Len(docCells[k].source) :
                BeginsWith(docCells[k].source[n - 1], <<PCT>>)
    /\ \E k \in 1..Len(docCells) :
          /\ k < i
          /\ Contributes(docCells[k])
          /\ BeginsWith(docCells[k].source[1], <<PCT>>)

C5_StringSourceAsListSource ==
    LoopDone =>
        code = Prefix(AsListDocument(docCells),
                      StopIndex(AsListDocument(docCells)))

\* C6: when the document is missing or is not valid JSON, background() has
\* raised with no temporary file created and no process spawned.
C6_ReadFailureHasNoSideEffect ==
    (pc = "raised" /\ docState \in {"missing", "invalid"})
    => /\ exc \in {"FileNotFoundError", "JSONDecodeError"}
       /\ tmpCreated = 0
       /\ ~tmpExists
       /\ spawned = 0
       /\ child = "none"
       /\ log = <<>>

C6_Witness == pc = "raised" /\ exc = "JSONDecodeError"

\* C7: an invocation creates at most one temporary file, and once it has
\* returned or raised the file it created is gone, launch failed or not.
C7_OneTmpFileDeletedOnExit ==
    /\ tmpCreated <= 1
    /\ tmpExists => tmpCreated = 1
    /\ Finished => ~tmpExists

C7_Witness ==
    /\ pc = "raised"
    /\ exc = "LaunchError"
    /\ tmpCreated = 1
    /\ ~tmpExists

\* C8: a successful invocation creates, writes, flushes, spawns, sleeps and
\* deletes in that order, each once; at the launch the file holds the whole
\* source and lies in the notebook's directory, the child gets its path as
\* sole argument, and the sleep never waits for the child.
C8_WriteSpawnSleepDelete ==
    /\ pc = "returned"
       => log = <<"create", "write", "flush", "spawn", "sleep", "delete">>
    /\ spawned <= 1
    /\ pc = "sleep"
       => /\ spawned = 1
          /\ tmpExists
          /\ tmpBuf = <<>>
          /\ tmpDisk = code
          /\ tmpDir = dirname(NbFname)
          /\ argv = <<Interpreter, [dir |-> dirname(NbFname), base |-> TmpBase]>>
          /\ ENABLED Sleep
    /\ (spawned = 1 /\ tmpExists) => tmpDisk = code

C8_Witness ==
    /\ pc = "returned"
    /\ code # <<>>
    /\ child = "launched"

\* C9: the deletion does not wait for the child: after the sleep the runner
\* can delete the file while the child has not opened it, and a child that
\* opens after the deletion does not find the file.
C9_DeletionDoesNotAwaitChild ==
    /\ (pc = "exit" /\ child = "launched") => ENABLED TmpExit
    /\ child = "missing" => (~tmpExists /\ pc = "returned")
    /\ child = "opened" => spawned = 1

C9_Witness == child = "missing" /\ spawned = 1 /\ pc = "returned"

====
